---- MODULE Spec2Model ----
(***************************************************************************)
(* nbgrader conversion orchestrator (nbgrader/converters/base.py) and the  *)
(* duplicate-id preprocessor (nbgrader/preprocessors/deduplicateids.py).   *)
(*                                                                         *)
(* Spec      : BaseConverter.convert_notebooks, one step per call made in  *)
(*             the body of its loop, over a small destination tree.        *)
(* SpecDedup : DeduplicateIds.preprocess over a bounded list of cells.     *)
(*                                                                         *)
(* Filesystem calls made by _handle_failure are taken to succeed; the      *)
(* removals of init_destination, the asset copy, the conversion and the    *)
(* permission walk may raise.                                              *)
(***************************************************************************)
EXTENDS Integers, Sequences, FiniteSets, TLC

\* ---------------------------------------------------------------- bounds
NumUnits == 2   \* source directories matched by the assignment glob
NumDocs  == 2   \* notebooks in each source directory
MaxTs    == 2   \* timestamps are 1..MaxTs; 0 stands for None
MaxRuns  == 2   \* start() is invoked at most this many times
MaxCells == 3   \* cells in a notebook (SpecDedup)
NumAssets == 2  \* other files in a source directory (SpecAssets)

Units == 1..NumUnits
Docs  == 1..NumDocs
Ts    == 0..MaxTs
None  == 0
Assets == 1..NumAssets

VARIABLES
    \* configuration traits
    force,              \* BaseConverter.force
    notebook_id,        \* coursedir.notebook_id
    student_id_exclude, \* coursedir.student_id_exclude, as the set of ids
    assignment_id,      \* coursedir.assignment_id, the selection given
    student_id,         \* coursedir.student_id, the selection given
    pre_convert_hook,   \* whether BaseConverter.pre_convert_hook is set
    post_convert_hook,  \* whether BaseConverter.post_convert_hook is set
    \* filesystem
    srcTs,              \* timestamp of each source directory (0: none)
    dest,               \* destination directory of each unit:
                        \*   exists: os.path.exists(dest)
                        \*   docs  : each output document, "absent", "old"
                        \*           (there before this run) or "new"
                        \*   ts    : its timestamp (0: none)
    \* convert_notebooks
    pc, cur, docIdx, exc, errors, result, reported, run, prev,
    \* observation of the run
    state,              \* of each unit: Discovered, Skipped, Processing,
                        \*   Committed or RolledBack
    last,               \* the unit the loop body was last entered for
    decision,           \* what init_destination decided for it
    pre,                \* its destination when the loop body was entered
    excAt,              \* the step that raised exc
    raised,             \* the exceptions raised while processing each unit
    touched,            \* the units whose destination this run changed
    calls,              \* the hook invocations of this run, in order
    \* set_permissions
    groupshared,        \* coursedir.groupshared
    st_mode,            \* os.stat(...).st_mode of the directory at hand
    last_chmod,         \* the last os.chmod made on a directory, if any
    warnings,           \* the directories a warning was logged for
    ppc,                \* position inside set_permissions
    \* init_assignment
    files,              \* the other files of each destination directory:
                        \*   "absent", "old" (there before this run) or "new"
    aidx,               \* the file the loop of init_assignment is at
    apc,                \* position inside the body of that loop
    \* observation of the run before
    first,              \* what the previous run left: the units of its
                        \*   error list and the units it committed
    \* DeduplicateIds / CheckDuplicateFlag
    cells, orig, grade_ids, dpc, didx

cfgVars == <<force, notebook_id, student_id_exclude, assignment_id, student_id,
             pre_convert_hook, post_convert_hook>>
fsVars  == <<srcTs, dest>>
ctlVars == <<pc, cur, docIdx, exc, errors, result, reported, run, prev>>
obsVars == <<state, decision, pre, last, excAt, raised, touched>>
dupVars == <<cells, orig, grade_ids, dpc, didx>>
permVars == <<groupshared, st_mode, last_chmod, warnings, ppc>>
assetVars == <<files, aidx, apc>>
histVars == <<first>>
vars    == <<cfgVars, fsVars, ctlVars, obsVars, dupVars, calls, permVars, assetVars,
             histVars>>

\* ------------------------------------------------------------- helpers
\* sorted(...) of a finite set of naturals, as the ascending sequence
RECURSIVE sorted(_)
sorted(S) ==
    IF S = {} THEN <<>>
    ELSE LET m == CHOOSE x \in S : \A y \in S : x <= y
         IN  <<m>> \o sorted(S \ {m})

\* glob.glob(os.path.join(assignment, notebook_id + ".ipynb"))
NotebookIds == {"*", "p1", "p?"}
glob(pattern) == IF pattern = "p1" THEN {1} ELSE Docs

\* self.notebooks = sorted(self.assignments[assignment])
notebooks == sorted(glob(notebook_id))

\* gd = m.groupdict(): (assignment_id, student_id) parsed from the path
gd(u) == <<"a1", u>>

ExcKinds == {"UnresponsiveKernelError", "OperationalError", "SchemaTooOldError",
             "SchemaTooNewError", "KeyboardInterrupt", "DuplicateCellError",
             "Exception"}

\* coursedir.get_existing_timestamp(path)
get_existing_timestamp(ts) == ts


\* ---------------------------------------------------------- filesystem
Absent == [exists |-> FALSE, docs |-> [d \in Docs |-> "absent"], ts |-> None]

DestStates ==
    {Absent} \cup
    {[exists |-> TRUE, docs |-> f, ts |-> t] :
        f \in [Docs -> {"absent", "old"}], t \in Ts}

\* utils.rmtree(dest)
rmtree(D) == Absent

\* "for notebook in self.notebooks: ... if os.path.exists(path): remove(path)"
remove_notebooks(D) ==
    [D EXCEPT !.docs = [d \in Docs |->
        IF d \in glob(notebook_id) THEN "absent" ELSE D.docs[d]]]

\* a removal that raised part-way: some of its targets are gone
partly_removed(D) ==
    {[D EXCEPT !.docs = [d \in Docs |-> IF d \in R THEN "absent" ELSE D.docs[d]],
               !.ts   = t] :
        R \in SUBSET (IF notebook_id = "*" THEN Docs ELSE glob(notebook_id)),
        t \in (IF notebook_id = "*" THEN {D.ts, None} ELSE {D.ts})}

\* variant: the timestamp of the destination is left as it was
copy_assets_keeps_timestamp(D, u) == [D EXCEPT !.exists = TRUE]

\* shutil.copy of every non-notebook file of the source (its timestamp file)
copy_assets(D, u) ==
    IF srcTs[u] # None THEN [D EXCEPT !.exists = TRUE, !.ts = srcTs[u]] ELSE D

\* self.writer.write(output, resources, notebook_name=...)
write(D, d) == [D EXCEPT !.exists = TRUE, !.docs[d] = "new"]

\* ---------------------------------------------------- init_destination
\* variant: only a destination without any of the notebooks counts as missing
missing_all(D) ==
    IF notebook_id = "*"
    THEN ~D.exists
    ELSE \A d \in glob(notebook_id) : D.docs[d] = "absent"

\* "the destination doesn't exist" / "any of the notebooks don't exist"
missing(D) ==
    IF notebook_id = "*"
    THEN ~D.exists
    ELSE \E d \in glob(notebook_id) : D.docs[d] = "absent"

\* variant: ">=" for ">"
newer_or_equal(u, D) ==
    LET new_timestamp == get_existing_timestamp(srcTs[u])
        old_timestamp == get_existing_timestamp(D.ts)
    IN  new_timestamp # None /\ old_timestamp # None /\ new_timestamp >= old_timestamp

\* "the source assignment is newer"
newer(u, D) ==
    LET new_timestamp == get_existing_timestamp(srcTs[u])
        old_timestamp == get_existing_timestamp(D.ts)
    IN  new_timestamp # None /\ old_timestamp # None /\ new_timestamp > old_timestamp

excluded(u) == gd(u)[2] \in student_id_exclude

\* variant: --force is only honoured for a stale destination
init_destination_force_if_newer(u, D) ==
    IF excluded(u)      THEN "Skip"
    ELSE IF missing(D)  THEN "CreateFresh"
    ELSE IF newer(u, D) THEN "RemoveAndReprocess"
    ELSE "Skip"

\* what init_destination does for unit u when the destination is D
init_destination(u, D) ==
    IF excluded(u)      THEN "Skip"
    ELSE IF missing(D)  THEN "CreateFresh"
    ELSE IF force       THEN "RemoveAndReprocess"
    ELSE IF newer(u, D) THEN "RemoveAndReprocess"
    ELSE "Skip"

\* the removal made by init_destination on RemoveAndReprocess
remove_existing(D) ==
    IF notebook_id = "*" THEN rmtree(D) ELSE remove_notebooks(D)

\* variant: nothing is removed when a single notebook was selected
handle_failure_keeps(D) ==
    IF notebook_id = "*"
    THEN IF D.exists THEN rmtree(D) ELSE D
    ELSE D

\* ------------------------------------------------------ _handle_failure
handle_failure(D) ==
    IF notebook_id = "*"
    THEN IF D.exists THEN rmtree(D) ELSE D
    ELSE remove_notebooks(D)

\* ----------------------------------------------------------------- Init
\* set_permissions is followed step by step in SpecPerm only
InitPermIdle ==
    /\ groupshared = FALSE /\ st_mode = 0 /\ last_chmod = <<>>
    /\ warnings = {} /\ ppc = "idle"

\* init_assignment is followed file by file in SpecAssets only
InitAssetsIdle ==
    /\ files = [u \in Units |-> [a \in Assets |-> "absent"]]
    /\ aidx = 1 /\ apc = "exists"

\* there is no run before; SpecRetry notes what the first run left
InitFirst ==
    first = [errors |-> {}, committed |-> {}]

InitDedupIdle ==
    /\ cells = <<>> /\ orig = <<>> /\ grade_ids = {} /\ dpc = "idle" /\ didx = 0

InitRun ==
    /\ pc = "init_destination" /\ cur = 1 /\ docIdx = 1 /\ exc = "none"
    /\ errors = <<>> /\ result = "running" /\ reported = <<>>
    /\ run = 1 /\ prev = "none"
    /\ state = [u \in Units |-> "Discovered"]
    /\ decision = "none" /\ pre = Absent /\ last = 0 /\ excAt = "none"
    /\ raised = [u \in Units |-> {}]
    /\ touched = {}
    /\ calls = <<>>

\* the selection and the hooks as they are by default: one assignment, every
\* student, no hook
InitDefaults ==
    /\ assignment_id = "a1"
    /\ student_id = "*"
    /\ pre_convert_hook = FALSE
    /\ post_convert_hook = FALSE

Init ==
    /\ force \in BOOLEAN
    /\ notebook_id \in NotebookIds
    /\ student_id_exclude \in {{}, {1}}
    /\ srcTs \in [Units -> Ts]
    /\ dest \in [Units -> DestStates]
    /\ InitDefaults
    /\ InitRun
    /\ InitDedupIdle
    /\ InitPermIdle
    /\ InitAssetsIdle
    /\ InitFirst

\* ------------------------------------------------------ convert_notebooks
\* variant: the loop stops one unit early
AdvanceStopsEarly ==
    /\ cur' = cur + 1
    /\ docIdx' = 1
    /\ pc' = IF cur + 1 < Len(sorted(Units)) THEN "init_destination" ELSE "report"

\* "for assignment in sorted(self.assignments.keys())": on to the next one
Advance ==
    /\ cur' = cur + 1
    /\ docIdx' = 1
    /\ pc' = IF cur < Len(sorted(Units)) THEN "init_destination" ELSE "report"

\* an exception leaves the try body
Raise(kind) ==
    /\ exc' = kind
    /\ excAt' = pc
    /\ raised' = [raised EXCEPT ![cur] = @ \cup {kind}]
    /\ pc' = "except"
    /\ UNCHANGED <<cur, docIdx>>

\* the unit whose destination changed in this step has been touched
Touch ==
    touched' = IF dest'[cur] # dest[cur] THEN touched \cup {cur} ELSE touched

\* the loop body starts on unit cur: what is observed of it
Evaluate(d) ==
    /\ last' = cur
    /\ pre' = dest[cur]
    /\ decision' = d

\* init_destination returned False: "continue"
InitDestinationSkip ==
    /\ pc = "init_destination"
    /\ init_destination(cur, dest[cur]) = "Skip"
    /\ Evaluate("Skip")
    /\ state' = [state EXCEPT ![cur] = "Skipped"]
    /\ exc' = "none" /\ excAt' = "none"
    /\ Advance
    /\ UNCHANGED <<cfgVars, fsVars, errors, result, reported, run, prev,
                   raised, touched, dupVars, assetVars, histVars, permVars, calls>>

\* init_destination returned True without touching the destination
InitDestinationCreate ==
    /\ pc = "init_destination"
    /\ init_destination(cur, dest[cur]) = "CreateFresh"
    /\ Evaluate("CreateFresh")
    /\ state' = [state EXCEPT ![cur] = "Processing"]
    /\ exc' = "none" /\ excAt' = "none"
    /\ pc' = "pre_hook"
    /\ UNCHANGED <<cfgVars, fsVars, cur, docIdx, errors, result, reported,
                   run, prev, raised, touched, dupVars, assetVars, histVars, permVars, calls>>

\* variant: init_destination returns True and leaves the existing output
InitDestinationKeeps ==
    /\ pc = "init_destination"
    /\ init_destination(cur, dest[cur]) = "RemoveAndReprocess"
    /\ Evaluate("RemoveAndReprocess")
    /\ state' = [state EXCEPT ![cur] = "Processing"]
    /\ exc' = "none" /\ excAt' = "none"
    /\ pc' = "pre_hook"
    /\ UNCHANGED <<cfgVars, fsVars, cur, docIdx, errors, result, reported,
                   run, prev, raised, touched, dupVars, assetVars, histVars, permVars, calls>>

\* init_destination removed the existing output and returned True
InitDestinationRemove ==
    /\ pc = "init_destination"
    /\ init_destination(cur, dest[cur]) = "RemoveAndReprocess"
    /\ Evaluate("RemoveAndReprocess")
    /\ dest' = [dest EXCEPT ![cur] = remove_existing(dest[cur])]
    /\ Touch
    /\ state' = [state EXCEPT ![cur] = "Processing"]
    /\ exc' = "none" /\ excAt' = "none"
    /\ pc' = "pre_hook"
    /\ UNCHANGED <<cfgVars, srcTs, cur, docIdx, errors, result, reported,
                   run, prev, raised, dupVars, assetVars, histVars, permVars, calls>>

\* rmtree/remove raised inside init_destination
InitDestinationRemoveRaise ==
    /\ pc = "init_destination"
    /\ init_destination(cur, dest[cur]) = "RemoveAndReprocess"
    /\ Evaluate("RemoveAndReprocess")
    /\ \E D \in partly_removed(dest[cur]) : dest' = [dest EXCEPT ![cur] = D]
    /\ Touch
    /\ Raise("Exception")
    /\ UNCHANGED <<cfgVars, srcTs, errors, result, reported, run, prev,
                   state, dupVars, assetVars, histVars, permVars, calls>>

\* Ctrl-C inside init_destination
InitDestinationInterrupt ==
    /\ pc = "init_destination"
    /\ Evaluate("none")
    /\ Raise("KeyboardInterrupt")
    /\ UNCHANGED <<cfgVars, fsVars, errors, result, reported, run, prev,
                   state, touched, dupVars, assetVars, histVars, permVars, calls>>

\* run_pre_convert_hook without a hook: "if self.pre_convert_hook" is false
PreHook ==
    /\ pc = "pre_hook"
    /\ ~pre_convert_hook
    /\ pc' = "init_assignment"
    /\ UNCHANGED <<cfgVars, fsVars, cur, docIdx, exc, errors, result, reported,
                   run, prev, obsVars, dupVars, assetVars, histVars, permVars, calls>>

\* init_assignment copied the assets
InitAssignment ==
    /\ pc = "init_assignment"
    /\ dest' = [dest EXCEPT ![cur] = copy_assets(dest[cur], cur)]
    /\ Touch
    /\ pc' = "convert"
    /\ docIdx' = 1
    /\ UNCHANGED <<cfgVars, srcTs, cur, exc, errors, result, reported, run, prev,
                   state, decision, pre, last, excAt, raised, dupVars, assetVars, histVars, permVars, calls>>

\* init_assignment raised, before or after the copy
InitAssignmentRaise ==
    /\ pc = "init_assignment"
    /\ \E D \in {dest[cur], copy_assets(dest[cur], cur)} :
            dest' = [dest EXCEPT ![cur] = D]
    /\ Touch
    /\ Raise("Exception")
    /\ UNCHANGED <<cfgVars, srcTs, errors, result, reported, run, prev,
                   state, decision, pre, last, dupVars, assetVars, histVars, permVars, calls>>

\* end of "for notebook_filename in self.notebooks"
AfterConvert == IF docIdx < Len(notebooks) THEN "convert" ELSE "set_permissions"

\* convert_single_notebook returned
ConvertOk ==
    /\ pc = "convert"
    /\ dest' = [dest EXCEPT ![cur] = write(dest[cur], notebooks[docIdx])]
    /\ Touch
    /\ docIdx' = docIdx + 1
    /\ pc' = AfterConvert
    /\ UNCHANGED <<cfgVars, srcTs, cur, exc, errors, result, reported, run, prev,
                   state, decision, pre, last, excAt, raised, dupVars, assetVars, histVars, permVars, calls>>

\* variant: the handler ends the loop over the notebooks
ConvertDuplicateBreaks ==
    /\ pc = "convert"
    /\ dest' = [dest EXCEPT ![cur] = write(dest[cur], notebooks[docIdx])]
    /\ Touch
    /\ raised' = [raised EXCEPT ![cur] = @ \cup {"DuplicateCellError"}]
    /\ errors' = Append(errors, gd(cur))
    /\ docIdx' = docIdx + 1
    /\ pc' = "set_permissions"
    /\ UNCHANGED <<cfgVars, srcTs, cur, exc, result, reported, run, prev,
                   state, decision, pre, last, excAt, dupVars, assetVars, histVars, permVars, calls>>

\* "except DuplicateCellError": logged, recorded, and the loop goes on.
\* CheckDuplicateFlag reads the tag that DeduplicateIds left in the document
\* from a file, so the output has been written when the error is raised.
ConvertDuplicate ==
    /\ pc = "convert"
    /\ dest' = [dest EXCEPT ![cur] = write(dest[cur], notebooks[docIdx])]
    /\ Touch
    /\ raised' = [raised EXCEPT ![cur] = @ \cup {"DuplicateCellError"}]
    /\ errors' = Append(errors, gd(cur))
    /\ docIdx' = docIdx + 1
    /\ pc' = AfterConvert
    /\ UNCHANGED <<cfgVars, srcTs, cur, exc, result, reported, run, prev,
                   state, decision, pre, last, excAt, dupVars, assetVars, histVars, permVars, calls>>

\* convert_single_notebook raised anything else, before or after the write
ConvertRaise ==
    /\ pc = "convert"
    /\ \E D \in {dest[cur], write(dest[cur], notebooks[docIdx])} :
            dest' = [dest EXCEPT ![cur] = D]
    /\ Touch
    /\ \E kind \in ExcKinds \ {"DuplicateCellError", "KeyboardInterrupt"} : Raise(kind)
    /\ UNCHANGED <<cfgVars, srcTs, errors, result, reported, run, prev,
                   state, decision, pre, last, dupVars, assetVars, histVars, permVars, calls>>

\* set_permissions returned (a PermissionError on a directory is only logged)
SetPermissions ==
    /\ pc = "set_permissions"
    /\ pc' = "post_hook"
    /\ UNCHANGED <<cfgVars, fsVars, cur, docIdx, exc, errors, result, reported,
                   run, prev, obsVars, dupVars, assetVars, histVars, permVars, calls>>

\* os.chmod of a file, os.walk or os.stat raised
SetPermissionsRaise ==
    /\ pc = "set_permissions"
    /\ Raise("Exception")
    /\ UNCHANGED <<cfgVars, fsVars, errors, result, reported, run, prev,
                   state, decision, pre, last, touched, dupVars, assetVars, histVars, permVars, calls>>

\* run_post_convert_hook without a hook, then the end of the try body
PostHook ==
    /\ pc = "post_hook"
    /\ ~post_convert_hook
    /\ state' = [state EXCEPT ![cur] = "Committed"]
    /\ Advance
    /\ UNCHANGED <<cfgVars, fsVars, exc, errors, result, reported, run, prev,
                   decision, pre, last, excAt, raised, touched, dupVars, assetVars, histVars, permVars, calls>>

\* Ctrl-C while a later step of the unit is running
Interrupt ==
    /\ pc \in {"pre_hook", "init_assignment", "convert", "set_permissions",
               "post_hook"}
    /\ Raise("KeyboardInterrupt")
    /\ UNCHANGED <<cfgVars, fsVars, errors, result, reported, run, prev,
                   state, decision, pre, last, touched, dupVars, assetVars, histVars, permVars, calls>>

\* variant: the handler records the unit and leaves its destination
RecordAndContinue(kind) ==
    /\ pc = "except"
    /\ exc = kind
    /\ errors' = Append(errors, gd(cur))
    /\ state' = [state EXCEPT ![cur] = "RolledBack"]
    /\ Advance
    /\ UNCHANGED <<cfgVars, fsVars, exc, result, reported, run, prev,
                   decision, pre, last, excAt, raised, touched, dupVars, assetVars, histVars, permVars,
                   calls>>

\* the handlers that record the unit and go on with the next one
RollBackAndContinue(kind) ==
    /\ pc = "except"
    /\ exc = kind
    /\ errors' = Append(errors, gd(cur))
    /\ dest' = [dest EXCEPT ![cur] = handle_failure(dest[cur])]
    /\ Touch
    /\ state' = [state EXCEPT ![cur] = "RolledBack"]
    /\ Advance
    /\ UNCHANGED <<cfgVars, srcTs, exc, result, reported, run, prev,
                   decision, pre, last, excAt, raised, dupVars, assetVars, histVars, permVars, calls>>

\* the handlers that roll back and leave convert_notebooks with an exception
RollBackAndAbort(kind, res) ==
    /\ pc = "except"
    /\ exc = kind
    /\ dest' = [dest EXCEPT ![cur] = handle_failure(dest[cur])]
    /\ Touch
    /\ state' = [state EXCEPT ![cur] = "RolledBack"]
    /\ result' = res
    /\ pc' = "done"
    /\ UNCHANGED <<cfgVars, srcTs, cur, docIdx, exc, errors, reported, run, prev,
                   decision, pre, last, excAt, raised, dupVars, assetVars, histVars, permVars, calls>>

\* variants: a handler that goes on where the code raises, and the reverse
ExceptUnresponsiveKernelErrorAborts ==
    RollBackAndAbort("UnresponsiveKernelError", "NbGraderException:kernel")
ExceptSchemaTooOldErrorContinues == RollBackAndContinue("SchemaTooOldError")
ExceptExceptionAborts == RollBackAndAbort("Exception", "NbGraderException:summary")

\* variant: the interrupt is re-raised without _handle_failure
ExceptKeyboardInterruptNoRollback ==
    /\ pc = "except"
    /\ exc = "KeyboardInterrupt"
    /\ state' = [state EXCEPT ![cur] = "RolledBack"]
    /\ result' = "KeyboardInterrupt"
    /\ pc' = "done"
    /\ UNCHANGED <<cfgVars, fsVars, cur, docIdx, exc, errors, reported, run, prev,
                   decision, pre, last, excAt, raised, touched, dupVars, assetVars, histVars, permVars,
                   calls>>

ExceptUnresponsiveKernelError == RollBackAndContinue("UnresponsiveKernelError")
ExceptOperationalError == RollBackAndAbort("OperationalError", "NbGraderException:database")
ExceptSchemaTooOldError == RollBackAndAbort("SchemaTooOldError", "NbGraderException:old")
ExceptSchemaTooNewError == RollBackAndAbort("SchemaTooNewError", "NbGraderException:new")
ExceptKeyboardInterrupt == RollBackAndAbort("KeyboardInterrupt", "KeyboardInterrupt")
ExceptException == RollBackAndContinue("Exception")

\* variant: a single failure is not reported
ReportMoreThanOne ==
    /\ pc = "report"
    /\ pc' = "done"
    /\ exc' = "none" /\ excAt' = "none"
    /\ IF Len(errors) > 1
       THEN /\ reported' = errors
            /\ result' = "NbGraderException:summary"
       ELSE /\ reported' = reported
            /\ result' = "returned"
    /\ UNCHANGED <<cfgVars, fsVars, cur, docIdx, errors, run, prev,
                   state, decision, pre, last, raised, touched, dupVars, assetVars, histVars, permVars, calls>>

\* "if len(errors) > 0": log every pair and raise the summary
Report ==
    /\ pc = "report"
    /\ pc' = "done"
    /\ exc' = "none" /\ excAt' = "none"
    /\ IF Len(errors) > 0
       THEN /\ reported' = errors
            /\ result' = "NbGraderException:summary"
       ELSE /\ reported' = reported
            /\ result' = "returned"
    /\ UNCHANGED <<cfgVars, fsVars, cur, docIdx, errors, run, prev,
                   state, decision, pre, last, raised, touched, dupVars, assetVars, histVars, permVars, calls>>

\* what this run wrote is, for the next run, what was there before
aged(D) == [D EXCEPT !.docs = [d \in Docs |-> IF D.docs[d] = "new" THEN "old" ELSE D.docs[d]]]

\* start() is invoked again with the same configuration and sources
Start ==
    /\ pc = "done"
    /\ run < MaxRuns
    /\ run' = run + 1
    /\ prev' = result
    /\ dest' = [u \in Units |-> aged(dest[u])]
    /\ pc' = "init_destination" /\ cur' = 1 /\ docIdx' = 1 /\ exc' = "none"
    /\ errors' = <<>> /\ result' = "running" /\ reported' = <<>>
    /\ state' = [u \in Units |-> "Discovered"]
    /\ decision' = "none" /\ pre' = Absent /\ last' = 0 /\ excAt' = "none"
    /\ raised' = [u \in Units |-> {}]
    /\ touched' = {}
    /\ calls' = <<>>
    /\ UNCHANGED <<cfgVars, srcTs, dupVars, assetVars, histVars, permVars>>

Next ==
    \/ InitDestinationSkip
    \/ InitDestinationCreate
    \/ InitDestinationRemove
    \/ InitDestinationRemoveRaise
    \/ InitDestinationInterrupt
    \/ PreHook
    \/ InitAssignment
    \/ InitAssignmentRaise
    \/ ConvertOk
    \/ ConvertDuplicate
    \/ ConvertRaise
    \/ SetPermissions
    \/ SetPermissionsRaise
    \/ PostHook
    \/ Interrupt
    \/ ExceptUnresponsiveKernelError
    \/ ExceptOperationalError
    \/ ExceptSchemaTooOldError
    \/ ExceptSchemaTooNewError
    \/ ExceptKeyboardInterrupt
    \/ ExceptException
    \/ Report

Spec == Init /\ [][Next]_vars

\* ------------------------------------------------------------- the hooks
\* how a call of a hook ends: it returns, it raises an Exception, or
\* KeyboardInterrupt is raised while it runs
HookOutcomes == {"returned", "Exception", "KeyboardInterrupt"}

\* hook(assignment=self.coursedir.assignment_id,
\*      student=self.coursedir.student_id, notebooks=self.notebooks)
hook_call(hook, outcome) ==
    [hook |-> hook, unit |-> cur, outcome |-> outcome,
     kwargs |-> [assignment |-> assignment_id, student |-> student_id,
                 notebooks |-> notebooks]]

\* variant: the Exception of the hook is not caught
PreHookCallPropagates ==
    /\ pc = "pre_hook"
    /\ pre_convert_hook
    /\ \E outcome \in {"returned", "Exception"} :
        /\ calls' = Append(calls, hook_call("pre", outcome))
        /\ IF outcome = "returned"
           THEN pc' = "init_assignment" /\ UNCHANGED <<cur, docIdx, exc, excAt, raised>>
           ELSE Raise("Exception")
    /\ UNCHANGED <<cfgVars, fsVars, errors, result, reported, run, prev,
                   state, decision, pre, last, touched, dupVars, assetVars, histVars, permVars>>

\* run_pre_convert_hook with a hook: it returned, or its Exception was
\* caught and logged
PreHookCall ==
    /\ pc = "pre_hook"
    /\ pre_convert_hook
    /\ \E outcome \in {"returned", "Exception"} :
            calls' = Append(calls, hook_call("pre", outcome))
    /\ pc' = "init_assignment"
    /\ UNCHANGED <<cfgVars, fsVars, cur, docIdx, exc, errors, result, reported,
                   run, prev, obsVars, dupVars, assetVars, histVars, permVars>>

\* KeyboardInterrupt is no Exception: it leaves run_pre_convert_hook
PreHookCallInterrupt ==
    /\ pc = "pre_hook"
    /\ pre_convert_hook
    /\ calls' = Append(calls, hook_call("pre", "KeyboardInterrupt"))
    /\ Raise("KeyboardInterrupt")
    /\ UNCHANGED <<cfgVars, fsVars, errors, result, reported, run, prev,
                   state, decision, pre, last, touched, dupVars, assetVars, histVars, permVars>>

\* variant: the post hook is also run by the handlers, after the rollback
PostHookCallAlways ==
    /\ pc \in {"post_hook", "except"}
    /\ post_convert_hook
    /\ \E outcome \in {"returned", "Exception"} :
            calls' = Append(calls, hook_call("post", outcome))
    /\ IF pc = "post_hook"
       THEN /\ state' = [state EXCEPT ![cur] = "Committed"]
            /\ Advance
       ELSE UNCHANGED <<state, pc, cur, docIdx>>
    /\ UNCHANGED <<cfgVars, fsVars, exc, errors, result, reported, run, prev,
                   decision, pre, last, excAt, raised, touched, dupVars, assetVars, histVars, permVars>>

\* run_post_convert_hook with a hook, then the end of the try body
PostHookCall ==
    /\ pc = "post_hook"
    /\ post_convert_hook
    /\ \E outcome \in {"returned", "Exception"} :
            calls' = Append(calls, hook_call("post", outcome))
    /\ state' = [state EXCEPT ![cur] = "Committed"]
    /\ Advance
    /\ UNCHANGED <<cfgVars, fsVars, exc, errors, result, reported, run, prev,
                   decision, pre, last, excAt, raised, touched, dupVars, assetVars, histVars, permVars>>

\* KeyboardInterrupt leaves run_post_convert_hook
PostHookCallInterrupt ==
    /\ pc = "post_hook"
    /\ post_convert_hook
    /\ calls' = Append(calls, hook_call("post", "KeyboardInterrupt"))
    /\ Raise("KeyboardInterrupt")
    /\ UNCHANGED <<cfgVars, fsVars, errors, result, reported, run, prev,
                   state, decision, pre, last, touched, dupVars, assetVars, histVars, permVars>>

\* a run with hooks, over destinations without timestamp file
InitHook ==
    /\ force \in BOOLEAN
    /\ notebook_id \in NotebookIds
    /\ student_id_exclude = {}
    /\ assignment_id \in {"a1", "*"}
    /\ student_id \in {"*", "?"}
    /\ pre_convert_hook \in BOOLEAN
    /\ post_convert_hook \in BOOLEAN
    /\ srcTs = [u \in Units |-> None]
    /\ dest \in [Units -> {D \in DestStates : D.ts = None}]
    /\ InitRun
    /\ InitDedupIdle
    /\ InitPermIdle
    /\ InitAssetsIdle
    /\ InitFirst

NextHook ==
    \/ Next
    \/ PreHookCall
    \/ PreHookCallInterrupt
    \/ PostHookCall
    \/ PostHookCallInterrupt

SpecHook == InitHook /\ [][NextHook]_vars

\* -------------------------------------------------------- set_permissions
\* st_mode is a 16-bit number: the file type above the 12 permission bits
ModeBits == 16
PermissionBits == 12

\* stat.S_IFDIR, the file type of a directory in st_mode
S_IFDIR == 16384

\* 0o2770: setgid and rwx for user and group
GroupSharedBits == 1528

\* 0o2777, the mask applied before os.chmod
ChmodMask == 1535

\* bit k of n
bit(n, k) == (n \div (2 ^ k)) % 2

RECURSIVE bitwise(_, _, _, _)
bitwise(op, a, b, k) ==
    IF k < 0 THEN 0
    ELSE (2 ^ k) * (IF op = "|"
                    THEN (IF bit(a, k) + bit(b, k) > 0 THEN 1 ELSE 0)
                    ELSE bit(a, k) * bit(b, k))
         + bitwise(op, a, b, k - 1)

\* a | b and a & b
bor(a, b)  == bitwise("|", a, b, ModeBits - 1)
band(a, b) == bitwise("&", a, b, ModeBits - 1)

\* what os.stat can return for a directory
DirModes == {S_IFDIR + m : m \in 0..(2 ^ PermissionBits - 1)}

\* "st_mode & 0o2770 != 0o2770"
needs_widening(mode) == band(mode, GroupSharedBits) # GroupSharedBits

\* "(st_mode|0o2770) & 0o2777"
widened(mode) == band(bor(mode, GroupSharedBits), ChmodMask)

\* the directories set_permissions changes: each one os.walk visits, and
\* the root of the output
PermDirs == {"dirname", "rootdir"}

\* "for filename in filenames: os.chmod(..., permissions)" went through
ChmodFile ==
    /\ pc = "set_permissions"
    /\ ppc = "files"
    /\ ppc' = "stat_dirname"
    /\ UNCHANGED <<groupshared, st_mode, last_chmod, warnings>>
    /\ UNCHANGED <<cfgVars, fsVars, ctlVars, obsVars, dupVars, assetVars, histVars, calls>>

\* os.chmod of a file raised: nothing catches it inside set_permissions
ChmodFileRaise ==
    /\ pc = "set_permissions"
    /\ ppc = "files"
    /\ ppc' = "raised:filename"
    /\ Raise("Exception")
    /\ UNCHANGED <<groupshared, st_mode, last_chmod, warnings>>
    /\ UNCHANGED <<cfgVars, fsVars, errors, result, reported, run, prev,
                   state, decision, pre, last, touched, dupVars, assetVars, histVars, calls>>

\* "st_mode = os.stat(dirname).st_mode", and the same for rootdir
Stat(dir) ==
    /\ pc = "set_permissions"
    /\ ppc = "stat_" \o dir
    /\ st_mode' \in DirModes
    /\ last_chmod' = <<>>
    /\ ppc' = "chmod_" \o dir
    /\ UNCHANGED <<groupshared, warnings>>
    /\ UNCHANGED <<cfgVars, fsVars, ctlVars, obsVars, dupVars, assetVars, histVars, calls>>

\* what follows the directory: the end of the walk, or of set_permissions
AfterDir(dir) == IF dir = "dirname" THEN "walked" ELSE "return"

\* the "if" is false: the directory is left alone
ChmodDirSkip(dir) ==
    /\ pc = "set_permissions"
    /\ ppc = "chmod_" \o dir
    /\ ~(groupshared /\ needs_widening(st_mode))
    /\ ppc' = AfterDir(dir)
    /\ UNCHANGED <<groupshared, st_mode, last_chmod, warnings>>
    /\ UNCHANGED <<cfgVars, fsVars, ctlVars, obsVars, dupVars, assetVars, histVars, calls>>

\* os.chmod(dirname, (st_mode|0o2770) & 0o2777) went through
ChmodDir(dir) ==
    /\ pc = "set_permissions"
    /\ ppc = "chmod_" \o dir
    /\ groupshared /\ needs_widening(st_mode)
    /\ last_chmod' = <<dir, widened(st_mode)>>
    /\ ppc' = AfterDir(dir)
    /\ UNCHANGED <<groupshared, st_mode, warnings>>
    /\ UNCHANGED <<cfgVars, fsVars, ctlVars, obsVars, dupVars, assetVars, histVars, calls>>

\* "except PermissionError: self.log.warning(...)"
ChmodDirPermissionError(dir) ==
    /\ pc = "set_permissions"
    /\ ppc = "chmod_" \o dir
    /\ groupshared /\ needs_widening(st_mode)
    /\ warnings' = warnings \cup {dir}
    /\ ppc' = AfterDir(dir)
    /\ UNCHANGED <<groupshared, st_mode, last_chmod>>
    /\ UNCHANGED <<cfgVars, fsVars, ctlVars, obsVars, dupVars, assetVars, histVars, calls>>

\* os.chmod of the directory raised an OSError that is no PermissionError
ChmodDirRaise(dir) ==
    /\ pc = "set_permissions"
    /\ ppc = "chmod_" \o dir
    /\ groupshared /\ needs_widening(st_mode)
    /\ ppc' = "raised:" \o dir
    /\ Raise("Exception")
    /\ UNCHANGED <<groupshared, st_mode, last_chmod, warnings>>
    /\ UNCHANGED <<cfgVars, fsVars, errors, result, reported, run, prev,
                   state, decision, pre, last, touched, dupVars, assetVars, histVars, calls>>

\* the walk is over: "if self.coursedir.groupshared" the root comes next
Walked ==
    /\ pc = "set_permissions"
    /\ ppc = "walked"
    /\ ppc' = IF groupshared THEN "stat_rootdir" ELSE "return"
    /\ st_mode' = 0
    /\ last_chmod' = <<>>
    /\ UNCHANGED <<groupshared, warnings>>
    /\ UNCHANGED <<cfgVars, fsVars, ctlVars, obsVars, dupVars, assetVars, histVars, calls>>

\* set_permissions returns to the try body
SetPermissionsReturn ==
    /\ pc = "set_permissions"
    /\ ppc = "return"
    /\ ppc' = "returned"
    /\ pc' = "post_hook"
    /\ UNCHANGED <<groupshared, st_mode, last_chmod, warnings>>
    /\ UNCHANGED <<cfgVars, fsVars, cur, docIdx, exc, errors, result, reported,
                   run, prev, obsVars, dupVars, assetVars, histVars, calls>>

\* the last unit of a run has been converted and set_permissions is entered
InitPerm ==
    /\ force = FALSE /\ notebook_id = "*" /\ student_id_exclude = {}
    /\ assignment_id = "a1" /\ student_id = "*"
    /\ pre_convert_hook = FALSE
    /\ post_convert_hook \in BOOLEAN
    /\ srcTs = [u \in Units |-> None]
    /\ dest = [u \in Units |-> [exists |-> TRUE, docs |-> [d \in Docs |-> "new"],
                                ts |-> None]]
    /\ pc = "set_permissions" /\ cur = NumUnits /\ docIdx = Len(notebooks) + 1
    /\ exc = "none" /\ errors = <<>> /\ result = "running" /\ reported = <<>>
    /\ run = 1 /\ prev = "none"
    /\ state = [u \in Units |-> IF u < NumUnits THEN "Committed" ELSE "Processing"]
    /\ decision = "CreateFresh" /\ pre = Absent /\ last = NumUnits
    /\ excAt = "none"
    /\ raised = [u \in Units |-> {}]
    /\ touched = Units
    /\ calls = <<>>
    /\ groupshared \in BOOLEAN
    /\ st_mode = 0 /\ last_chmod = <<>> /\ warnings = {} /\ ppc = "files"
    /\ InitDedupIdle
    /\ InitAssetsIdle
    /\ InitFirst

NextPerm ==
    \/ ChmodFile
    \/ ChmodFileRaise
    \/ \E dir \in PermDirs : Stat(dir)
    \/ \E dir \in PermDirs : ChmodDirSkip(dir)
    \/ \E dir \in PermDirs : ChmodDir(dir)
    \/ \E dir \in PermDirs : ChmodDirPermissionError(dir)
    \/ \E dir \in PermDirs : ChmodDirRaise(dir)
    \/ Walked
    \/ SetPermissionsReturn
    \/ PostHook
    \/ PostHookCall
    \/ ExceptException
    \/ Report

SpecPerm == InitPerm /\ [][NextPerm]_vars

\* ------------------------------------------ init_assignment, file by file
\* Spec takes the copy made by init_assignment as one step and keeps of the
\* other files only the timestamp; here the loop over find_all_files(source)
\* is followed one file at a time.

\* rmtree(dest) takes the other files of the directory with it; remove(path)
\* of the selected notebooks leaves them
remove_existing_files(F) ==
    IF notebook_id = "*" THEN [a \in Assets |-> "absent"] ELSE F

\* a rmtree that raised part-way: some of the files are gone
partly_removed_files(F) ==
    IF notebook_id = "*"
    THEN {[a \in Assets |-> IF a \in R THEN "absent" ELSE F[a]] : R \in SUBSET Assets}
    ELSE {F}

\* _handle_failure: rmtree(dest) when every notebook was selected
handle_failure_files(D, F) ==
    IF notebook_id = "*" /\ D.exists THEN [a \in Assets |-> "absent"] ELSE F

\* init_destination removed the existing output and returned True
InitDestinationRemoveFiles ==
    /\ pc = "init_destination"
    /\ init_destination(cur, dest[cur]) = "RemoveAndReprocess"
    /\ Evaluate("RemoveAndReprocess")
    /\ dest' = [dest EXCEPT ![cur] = remove_existing(dest[cur])]
    /\ files' = [files EXCEPT ![cur] = remove_existing_files(@)]
    /\ Touch
    /\ state' = [state EXCEPT ![cur] = "Processing"]
    /\ exc' = "none" /\ excAt' = "none"
    /\ pc' = "pre_hook"
    /\ UNCHANGED <<cfgVars, srcTs, cur, docIdx, errors, result, reported,
                   run, prev, raised, dupVars, permVars, calls, aidx, apc, histVars>>

\* rmtree/remove raised inside init_destination
InitDestinationRemoveFilesRaise ==
    /\ pc = "init_destination"
    /\ init_destination(cur, dest[cur]) = "RemoveAndReprocess"
    /\ Evaluate("RemoveAndReprocess")
    /\ \E D \in partly_removed(dest[cur]) : dest' = [dest EXCEPT ![cur] = D]
    /\ \E F \in partly_removed_files(files[cur]) : files' = [files EXCEPT ![cur] = F]
    /\ Touch
    /\ Raise("Exception")
    /\ UNCHANGED <<cfgVars, srcTs, errors, result, reported, run, prev,
                   state, dupVars, permVars, calls, aidx, apc, histVars>>

\* "if not os.path.exists(os.path.dirname(path)): os.makedirs(...)" and
\* "if os.path.exists(path): remove(path)" for the file at hand
AssetRemove ==
    /\ pc = "init_assignment"
    /\ aidx <= NumAssets
    /\ apc = "exists"
    /\ dest' = [dest EXCEPT ![cur].exists = TRUE]
    /\ files' = [files EXCEPT ![cur][aidx] = "absent"]
    /\ Touch
    /\ apc' = "copy"
    /\ UNCHANGED <<cfgVars, srcTs, cur, docIdx, exc, errors, result, reported,
                   run, prev, pc, state, decision, pre, last, excAt, raised,
                   dupVars, permVars, calls, aidx, histVars>>

\* remove(path) raised
AssetRemoveRaise ==
    /\ pc = "init_assignment"
    /\ aidx <= NumAssets
    /\ apc = "exists"
    /\ files[cur][aidx] # "absent"
    /\ Raise("Exception")
    /\ UNCHANGED <<cfgVars, fsVars, errors, result, reported, run, prev,
                   state, decision, pre, last, touched, dupVars, permVars,
                   calls, assetVars, histVars>>

\* shutil.copy(filename, path), then the next file
AssetCopy ==
    /\ pc = "init_assignment"
    /\ aidx <= NumAssets
    /\ apc = "copy"
    /\ files' = [files EXCEPT ![cur][aidx] = "new"]
    /\ aidx' = aidx + 1
    /\ apc' = "exists"
    /\ UNCHANGED <<cfgVars, fsVars, ctlVars, obsVars, dupVars, permVars, calls, histVars>>

\* the timestamp, taken as the last file of the walk, is replaced; then
\* init_assignment returns
InitAssignmentReturn ==
    /\ pc = "init_assignment"
    /\ aidx = NumAssets + 1
    /\ dest' = [dest EXCEPT ![cur] = copy_assets(dest[cur], cur)]
    /\ Touch
    /\ pc' = "convert"
    /\ docIdx' = 1
    /\ aidx' = 1
    /\ UNCHANGED <<cfgVars, srcTs, cur, exc, errors, result, reported, run, prev,
                   state, decision, pre, last, excAt, raised, dupVars, permVars,
                   calls, files, apc, histVars>>

\* "except Exception": the unit is recorded and rolled back, the loop goes on
ExceptExceptionFiles ==
    /\ pc = "except"
    /\ exc = "Exception"
    /\ errors' = Append(errors, gd(cur))
    /\ dest' = [dest EXCEPT ![cur] = handle_failure(dest[cur])]
    /\ files' = [files EXCEPT ![cur] = handle_failure_files(dest[cur], @)]
    /\ Touch
    /\ state' = [state EXCEPT ![cur] = "RolledBack"]
    /\ Advance
    /\ aidx' = 1 /\ apc' = "exists"
    /\ UNCHANGED <<cfgVars, srcTs, exc, result, reported, run, prev,
                   decision, pre, last, excAt, raised, dupVars, permVars, calls,
                   histVars>>

\* every source directory has a timestamp and NumAssets other files; a
\* destination that does not exist holds no file
InitAssets ==
    /\ force \in BOOLEAN
    /\ notebook_id \in NotebookIds
    /\ student_id_exclude = {}
    /\ srcTs = [u \in Units |-> MaxTs]
    /\ dest \in [Units -> DestStates]
    /\ files \in [Units -> [Assets -> {"absent", "old"}]]
    /\ \A u \in Units : ~dest[u].exists => \A a \in Assets : files[u][a] = "absent"
    /\ aidx = 1 /\ apc = "exists"
    /\ InitFirst
    /\ InitDefaults
    /\ InitRun
    /\ InitDedupIdle
    /\ InitPermIdle

NextAssets ==
    \/ InitDestinationSkip
    \/ InitDestinationCreate
    \/ InitDestinationRemoveFiles
    \/ InitDestinationRemoveFilesRaise
    \/ PreHook
    \/ AssetRemove
    \/ AssetRemoveRaise
    \/ AssetCopy
    \/ InitAssignmentReturn
    \/ ConvertOk
    \/ SetPermissions
    \/ PostHook
    \/ ExceptExceptionFiles
    \/ Report

SpecAssets == InitAssets /\ [][NextAssets]_vars

\* ------------------------------------------- DeduplicateIds.preprocess
\* A cell is its metadata dictionary: a function whose domain holds
\* "nbgrader" and "nbgrader_local" when these keys are present.
GradeIds == {"q1", "q2"}

\* nbgraderformat.SCHEMA_REQUIRED
SCHEMA_REQUIRED ==
    [v \in {1, 2, 3} |->
        [schema_version |-> v, grade |-> FALSE, locked |-> FALSE, solution |-> FALSE]]

NbgraderMetadata ==
    {[schema_version |-> v, grade |-> f[1], solution |-> f[2], locked |-> f[3],
      grade_id |-> g] :
        v \in DOMAIN SCHEMA_REQUIRED,
        f \in {<<FALSE, FALSE, FALSE>>, <<TRUE, FALSE, FALSE>>,
               <<FALSE, TRUE, FALSE>>, <<FALSE, FALSE, TRUE>>},
        g \in GradeIds}

Cells == {<<>>} \cup {[nbgrader |-> m] : m \in NbgraderMetadata}

Notebooks == UNION {[1..n -> Cells] : n \in 0..MaxCells}

\* utils.is_grade / is_solution / is_locked
is_grade(cell)    == "nbgrader" \in DOMAIN cell /\ cell.nbgrader.grade
is_solution(cell) == "nbgrader" \in DOMAIN cell /\ cell.nbgrader.solution
is_locked(cell)   == "nbgrader" \in DOMAIN cell /\ cell.nbgrader.locked

relevant(cell) == is_grade(cell) \/ is_solution(cell) \/ is_locked(cell)

\* variant: the cells are visited in document order
not_reversed(seq) == seq

\* nb.cells[::-1]
reversed(seq) == [i \in 1..Len(seq) |-> seq[Len(seq) + 1 - i]]

\* metadata[key] = value
setitem(cell, key, value) ==
    [k \in DOMAIN cell \cup {key} |-> IF k = key THEN value ELSE cell[k]]

\* the branch of preprocess_cell taken for a repeated grade_id
neutralize(cell) ==
    LET schema_version == cell.nbgrader.schema_version
        c1 == setitem(cell, "nbgrader", SCHEMA_REQUIRED[schema_version])
    IN  setitem(c1, "nbgrader_local", [duplicate |-> TRUE])

\* "grade_id in self.grade_ids"
seen(cell) == cell.nbgrader.grade_id \in grade_ids

\* CheckDuplicateFlag.postprocess_cell: the condition of its "if"
flagged(cell) ==
    "nbgrader_local" \in DOMAIN cell /\ "duplicate" \in DOMAIN cell.nbgrader_local

\* del cell.metadata.nbgrader_local["duplicate"]
unflag(cell) ==
    setitem(cell, "nbgrader_local",
            [k \in DOMAIN cell.nbgrader_local \ {"duplicate"} |-> cell.nbgrader_local[k]])

InitRunIdle ==
    /\ force = FALSE /\ notebook_id = "*" /\ student_id_exclude = {}
    /\ InitDefaults
    /\ InitPermIdle
    /\ InitAssetsIdle
    /\ InitFirst
    /\ calls = <<>>
    /\ srcTs = [u \in Units |-> None] /\ dest = [u \in Units |-> Absent]
    /\ pc = "idle" /\ cur = 1 /\ docIdx = 1 /\ exc = "none"
    /\ errors = <<>> /\ result = "running" /\ reported = <<>>
    /\ run = 1 /\ prev = "none"
    /\ state = [u \in Units |-> "Discovered"]
    /\ decision = "none" /\ pre = Absent /\ last = 0 /\ excAt = "none"
    /\ raised = [u \in Units |-> {}]
    /\ touched = {}

InitDedup ==
    /\ cells \in Notebooks
    /\ orig = cells
    /\ grade_ids = {}
    /\ dpc = "preprocess"
    /\ didx = 0
    /\ InitRunIdle

runVars == <<cfgVars, fsVars, ctlVars, obsVars, calls, permVars, assetVars, histVars>>

\* preprocess: reset the ids seen and reverse the cells
Preprocess ==
    /\ dpc = "preprocess"
    /\ grade_ids' = {}
    /\ cells' = reversed(cells)
    /\ didx' = 1
    /\ dpc' = "preprocess_cell"
    /\ UNCHANGED <<orig, runVars>>

\* preprocess_cell on a cell that is not grade, solution or locked
PreprocessCellOther ==
    /\ dpc = "preprocess_cell"
    /\ didx <= Len(cells)
    /\ ~relevant(cells[didx])
    /\ didx' = didx + 1
    /\ UNCHANGED <<cells, orig, grade_ids, dpc, runVars>>

\* preprocess_cell on a cell whose grade_id was already met
PreprocessCellDuplicate ==
    /\ dpc = "preprocess_cell"
    /\ didx <= Len(cells)
    /\ relevant(cells[didx])
    /\ seen(cells[didx])
    /\ cells' = [cells EXCEPT ![didx] = neutralize(cells[didx])]
    /\ didx' = didx + 1
    /\ UNCHANGED <<orig, grade_ids, dpc, runVars>>

\* preprocess_cell on a cell whose grade_id is met for the first time
PreprocessCellFirst ==
    /\ dpc = "preprocess_cell"
    /\ didx <= Len(cells)
    /\ relevant(cells[didx])
    /\ ~seen(cells[didx])
    /\ grade_ids' = grade_ids \cup {cells[didx].nbgrader.grade_id}
    /\ didx' = didx + 1
    /\ UNCHANGED <<cells, orig, dpc, runVars>>

\* variant: the cells are returned in the order they were visited
PreprocessReturnReversed ==
    /\ dpc = "preprocess_cell"
    /\ didx > Len(cells)
    /\ didx' = 1
    /\ dpc' = "postprocess"
    /\ UNCHANGED <<cells, orig, grade_ids, runVars>>

\* preprocess: every cell was visited, restore the order and return
PreprocessReturn ==
    /\ dpc = "preprocess_cell"
    /\ didx > Len(cells)
    /\ cells' = reversed(cells)
    /\ didx' = 1
    /\ dpc' = "postprocess"
    /\ UNCHANGED <<orig, grade_ids, runVars>>

\* CheckDuplicateFlag.postprocess_cell on a cell without the tag
PostprocessCell ==
    /\ dpc = "postprocess"
    /\ didx <= Len(cells)
    /\ ~flagged(cells[didx])
    /\ didx' = didx + 1
    /\ UNCHANGED <<cells, orig, grade_ids, dpc, runVars>>

\* variant: the tag is left on the cell when the error is raised
PostprocessCellRaiseKeepsTag ==
    /\ dpc = "postprocess"
    /\ didx <= Len(cells)
    /\ flagged(cells[didx])
    /\ dpc' = "DuplicateCellError"
    /\ UNCHANGED <<cells, orig, grade_ids, didx, runVars>>

\* CheckDuplicateFlag.postprocess_cell strips the tag and raises
PostprocessCellRaise ==
    /\ dpc = "postprocess"
    /\ didx <= Len(cells)
    /\ flagged(cells[didx])
    /\ cells' = [cells EXCEPT ![didx] = unflag(cells[didx])]
    /\ dpc' = "DuplicateCellError"
    /\ UNCHANGED <<orig, grade_ids, didx, runVars>>

\* CheckDuplicateFlag.postprocess returned
PostprocessReturn ==
    /\ dpc = "postprocess"
    /\ didx > Len(cells)
    /\ dpc' = "checked"
    /\ UNCHANGED <<cells, orig, grade_ids, didx, runVars>>

\* variant: the handler only logs
ExceptDuplicateCellErrorLogsOnly ==
    /\ dpc = "DuplicateCellError"
    /\ dpc' = "recorded"
    /\ UNCHANGED <<cells, orig, grade_ids, didx, runVars>>

\* convert_notebooks: "except DuplicateCellError" around the conversion of
\* one notebook
ExceptDuplicateCellError ==
    /\ dpc = "DuplicateCellError"
    /\ errors' = Append(errors, gd(cur))
    /\ dpc' = "recorded"
    /\ UNCHANGED <<cells, orig, grade_ids, didx>>
    /\ UNCHANGED <<cfgVars, fsVars, obsVars, calls, permVars, assetVars, histVars>>
    /\ UNCHANGED <<pc, cur, docIdx, exc, result, reported, run, prev>>

NextDedup ==
    \/ Preprocess
    \/ PreprocessCellOther
    \/ PreprocessCellDuplicate
    \/ PreprocessCellFirst
    \/ PreprocessReturn
    \/ PostprocessCell
    \/ PostprocessCellRaise
    \/ PostprocessReturn
    \/ ExceptDuplicateCellError

SpecDedup == InitDedup /\ [][NextDedup]_vars

\* a document may come with the duplicate tag already on some of its cells:
\* CheckDuplicateFlag strips the tag from the notebook it has read, never
\* from the file, so the output of one conversion that is the input of the
\* next keeps it
TaggedCells ==
    Cells \cup {setitem(c, "nbgrader_local", [duplicate |-> TRUE]) : c \in Cells}

TaggedNotebooks == UNION {[1..n -> TaggedCells] : n \in 0..MaxCells}

InitTagged ==
    /\ cells \in TaggedNotebooks
    /\ orig = cells
    /\ grade_ids = {}
    /\ dpc = "preprocess"
    /\ didx = 0
    /\ InitRunIdle

SpecTagged == InitTagged /\ [][NextDedup]_vars

\* two consecutive runs without --force
InitRerun == Init /\ force = FALSE
NextRerun == Next \/ Start
SpecRerun == InitRerun /\ [][NextRerun]_vars

\* start() is invoked again by hand, with the same configuration and
\* sources; what the run before left is noted
Retry ==
    /\ pc = "done"
    /\ run < MaxRuns
    /\ run' = run + 1
    /\ prev' = result
    /\ first' = [errors    |-> {u \in Units : \E i \in 1..Len(errors) : errors[i] = gd(u)},
                 committed |-> {u \in Units : state[u] = "Committed"}]
    /\ dest' = [u \in Units |-> aged(dest[u])]
    /\ pc' = "init_destination" /\ cur' = 1 /\ docIdx' = 1 /\ exc' = "none"
    /\ errors' = <<>> /\ result' = "running" /\ reported' = <<>>
    /\ state' = [u \in Units |-> "Discovered"]
    /\ decision' = "none" /\ pre' = Absent /\ last' = 0 /\ excAt' = "none"
    /\ raised' = [u \in Units |-> {}]
    /\ touched' = {}
    /\ calls' = <<>>
    /\ UNCHANGED <<cfgVars, srcTs, dupVars, assetVars, permVars>>

NextRetry == Next \/ Retry
SpecRetry == InitRerun /\ [][NextRetry]_vars


\* ================================================================ claims
Terminal == {"Skipped", "Committed", "RolledBack"}

\* the exceptions after which convert_notebooks does not go on
RunFatal == {"OperationalError", "SchemaTooOldError", "SchemaTooNewError",
             "KeyboardInterrupt"}

InErrors(u) == \E i \in 1..Len(errors) : errors[i] = gd(u)

\* a handler has just dealt with the exception exc raised by unit last
JustHandled == exc # "none" /\ pc # "except"

\* every selected document of D was written in this run
Regenerated(D) == \A d \in glob(notebook_id) : D.docs[d] = "new"

\* D is what a rollback leaves of a unit whose destination was P before
RolledBackFrom(D, P) ==
    IF notebook_id = "*"
    THEN D = Absent
    ELSE \A d \in Docs :
            D.docs[d] = IF d \in glob(notebook_id) THEN "absent" ELSE P.docs[d]

\* C1 Cross-unit isolation: when unit A raised an ordinary exception, no
\* unit before B ended the run and B raised nothing, then at the end of the
\* run B is Committed with its documents written (or Skipped by
\* init_destination), the error list holds A's pair and not B's, and the
\* run ends with the summary.
CrossUnitIsolation ==
    pc = "done" =>
        \A A \in Units, B \in Units :
            ( /\ A < B
              /\ "Exception" \in raised[A]
              /\ \A C \in Units : C < B => raised[C] \cap RunFatal = {}
              /\ raised[B] = {} )
            => /\ state[B] \in {"Committed", "Skipped"}
               /\ state[B] = "Committed" => Regenerated(dest[B])
               /\ InErrors(A)
               /\ ~InErrors(B)
               /\ result = "NbGraderException:summary"

CrossUnitIsolationWitness ==
    /\ pc = "done"
    /\ "Exception" \in raised[1]
    /\ raised[2] = {}
    /\ state[2] = "Committed"
    /\ Regenerated(dest[2])
    /\ errors = <<gd(1)>>

\* C2 (as stated) Rollback atomicity: once the failure of a conversion has
\* been handled, the unit's destination is absent or as it was before the
\* run.
RollbackRestoresOriginal ==
    /\ (JustHandled /\ excAt = "convert") => dest[last] \in {Absent, pre}
    /\ (last # 0 /\ pc # "except" /\ "DuplicateCellError" \in raised[last])
            => dest[last] \in {Absent, pre}

\* C2 (amended) Rollback atomicity: once a handler of the unit level has
\* dealt with an exception raised by a conversion, the destination is
\* absent (whole assignment) or holds none of the selected documents and
\* the other documents as they were (single-document mode).
RollbackAtomicity ==
    (JustHandled /\ excAt = "convert") => RolledBackFrom(dest[last], pre)

RollbackAtomicityWitness ==
    /\ JustHandled
    /\ excAt = "convert"
    /\ exc = "Exception"
    /\ notebook_id = "p?"
    /\ raised[last] = {"DuplicateCellError", "Exception"}
    /\ pre.docs[NumDocs] = "old"
    /\ last \in touched

\* C3 Run result: after the last unit, the summary is raised iff the error
\* list is not empty, and then every pair of the list has been reported; a
\* run in which no unit raised anything returns normally.
RunResult ==
    /\ (pc = "done" /\ result \in {"returned", "NbGraderException:summary"})
        => /\ (result = "NbGraderException:summary") <=> (Len(errors) > 0)
           /\ result = "NbGraderException:summary"
                => \A i \in 1..Len(errors) :
                      \E j \in 1..Len(reported) : reported[j] = errors[i]
    /\ (pc = "done" /\ \A u \in Units : raised[u] = {}) => result = "returned"

RunResultWitness ==
    /\ pc = "done"
    /\ result = "NbGraderException:summary"
    /\ Len(errors) = 1
    /\ reported = errors

\* C4 (as stated) Every discovered unit is attempted: when
\* convert_notebooks returns or raises its failure (no interrupt having
\* come in), every unit is Skipped, Committed or RolledBack.
AllUnitsAttemptedOriginal ==
    (pc = "done" /\ \A u \in Units : "KeyboardInterrupt" \notin raised[u])
        => \A u \in Units : state[u] \in Terminal

\* C4 (amended) Every discovered unit is attempted unless a run-fatal
\* exception or an interrupt ends the run: when no unit raised one, the run
\* ends by returning or by the summary, with every unit in a terminal state.
AllUnitsAttempted ==
    (pc = "done" /\ \A u \in Units : raised[u] \cap RunFatal = {})
        => /\ \A u \in Units : state[u] \in Terminal
           /\ result \in {"returned", "NbGraderException:summary"}

AllUnitsAttemptedWitness ==
    /\ pc = "done"
    /\ \A u \in Units : state[u] = "RolledBack" /\ raised[u] = {"Exception"}

\* the NbGraderException raised by the handler of each run-fatal exception
FatalResult(kind) ==
    CASE kind = "OperationalError"  -> "NbGraderException:database"
      [] kind = "SchemaTooOldError" -> "NbGraderException:old"
      [] kind = "SchemaTooNewError" -> "NbGraderException:new"

\* C5 Schema/database run-fatal handling: once SchemaTooOldError,
\* SchemaTooNewError or OperationalError has been handled, the unit is
\* rolled back, convert_notebooks has raised the NbGraderException of that
\* case, and no later unit has been evaluated or had its destination
\* changed.
SchemaDatabaseFatal ==
    (JustHandled /\ exc \in {"OperationalError", "SchemaTooOldError", "SchemaTooNewError"})
        => /\ pc = "done"
           /\ result = FatalResult(exc)
           /\ last = cur
           /\ state[last] = "RolledBack"
           /\ RolledBackFrom(dest[last], pre)
           /\ \A v \in Units : v > last => state[v] = "Discovered" /\ v \notin touched

SchemaDatabaseFatalWitness ==
    /\ pc = "done"
    /\ exc = "SchemaTooOldError"
    /\ last = 1
    /\ 1 \in touched
    /\ errors = <<>>
    /\ state[NumUnits] = "Discovered"

\* C6 (as stated) Unresponsive backend is run-fatal: after a unit raised
\* UnresponsiveKernelError no later unit is processed.
UnresponsiveAbortsOriginal ==
    \A u \in Units, v \in Units :
        (u < v /\ "UnresponsiveKernelError" \in raised[u]) => state[v] = "Discovered"

\* C6 (amended) Unresponsive backend fails the unit only: once
\* UnresponsiveKernelError has been handled, the unit is rolled back and in
\* the error list, and the run goes on with the next unit (or the report).
UnresponsiveContinues ==
    (JustHandled /\ exc = "UnresponsiveKernelError")
        => /\ state[last] = "RolledBack"
           /\ RolledBackFrom(dest[last], pre)
           /\ InErrors(last)
           /\ result = "running"
           /\ cur = last + 1
           /\ pc = IF last < NumUnits THEN "init_destination" ELSE "report"

UnresponsiveContinuesWitness ==
    /\ JustHandled
    /\ exc = "UnresponsiveKernelError"
    /\ last = 1
    /\ pc = "init_destination"
    /\ 1 \in touched

\* nothing has been raised in this run so far
Quiet == \A u \in Units : raised[u] = {}

ForcedOverwriteOriginal ==
    force => \A u \in Units : state[u] # "Skipped"

\* C8 (amended) Forced overwrite: with --force no unit outside
\* student_id_exclude is skipped; when the whole assignment is selected no
\* document of before the run outlives init_destination, and a unit that
\* is Committed has every selected document written in this run.
ForcedOverwrite ==
    force =>
        \A u \in Units :
            ~excluded(u) =>
                /\ state[u] # "Skipped"
                /\ (notebook_id = "*" /\ state[u] \in {"Processing", "Committed"})
                        => \A d \in Docs : dest[u].docs[d] # "old"
                /\ state[u] = "Committed" => Regenerated(dest[u])

ForcedOverwriteWitness ==
    /\ force
    /\ decision = "RemoveAndReprocess"
    /\ ~newer(last, pre)
    /\ pre.docs = [d \in Docs |-> "old"]
    /\ state[last] = "Committed"
    /\ Regenerated(dest[last])

\* the decision table of the staleness policy
StalenessDecision(frc, destination_exists, expected_missing, new_ts, old_ts, single) ==
    IF ~single /\ ~destination_exists THEN "CreateFresh"
    ELSE IF single /\ expected_missing THEN "CreateFresh"
    ELSE IF frc THEN "RemoveAndReprocess"
    ELSE IF new_ts # None /\ old_ts # None /\ new_ts > old_ts THEN "RemoveAndReprocess"
    ELSE "Skip"

Decided ==
    StalenessDecision(force, pre.exists,
                      \E d \in glob(notebook_id) : pre.docs[d] = "absent",
                      srcTs[last], pre.ts, notebook_id # "*")

\* C9 (as stated) Staleness decision table: what init_destination did for
\* a unit is what the table gives for the destination it found.
DecisionTableOriginal ==
    decision # "none" => decision = Decided

\* C9 (amended) Staleness decision table: for a unit outside
\* student_id_exclude, what init_destination did is what the table gives;
\* such a unit is skipped only when its destination exists, --force is not
\* set and the source is not known to be newer. A unit listed in
\* student_id_exclude is always skipped.
DecisionTable ==
    decision # "none" =>
        /\ ~excluded(last) =>
            /\ decision = Decided
            /\ decision = "Skip" =>
                /\ pre.exists
                /\ ~force
                /\ ~(srcTs[last] # None /\ pre.ts # None /\ srcTs[last] > pre.ts)
        /\ excluded(last) => decision = "Skip"
        /\ decision = "Skip" <=> state[last] = "Skipped"
        /\ decision = "Skip" => dest[last] = pre
        /\ (decision = "CreateFresh" /\ pc = "pre_hook") => dest[last] = pre
        /\ (decision = "RemoveAndReprocess" /\ pc = "pre_hook")
                => RolledBackFrom(dest[last], pre)

DecisionTableWitness ==
    /\ decision = "Skip"
    /\ ~excluded(last)
    /\ notebook_id = "p1"
    /\ srcTs[last] = pre.ts
    /\ pre.ts # None
    /\ state[last] = "Skipped"

\* cells i and j of the document are grading cells with the same grade_id
SameId(i, j) ==
    /\ relevant(orig[i])
    /\ relevant(orig[j])
    /\ orig[i].nbgrader.grade_id = orig[j].nbgrader.grade_id

\* C10 Duplicate-id canonicalization (last wins): after preprocess, of the
\* grading cells that share a grade_id the last one in document order is
\* unchanged and every earlier one carries the "unimportant" metadata of
\* its schema version and the duplicate tag.
LastWins ==
    dpc \in {"postprocess", "checked"} =>
        /\ Len(cells) = Len(orig)
        /\ \A i \in 1..Len(orig) :
            (\E j \in 1..Len(orig) : j # i /\ SameId(i, j)) =>
                IF \E j \in 1..Len(orig) : j > i /\ SameId(i, j)
                THEN cells[i] =
                        [nbgrader |->
                            [schema_version |-> orig[i].nbgrader.schema_version,
                             grade |-> FALSE, locked |-> FALSE, solution |-> FALSE],
                         nbgrader_local |-> [duplicate |-> TRUE]]
                ELSE cells[i] = orig[i]

LastWinsWitness ==
    /\ dpc = "postprocess"
    /\ Len(orig) = 3
    /\ SameId(1, 2)
    /\ SameId(2, 3)
    /\ orig[1].nbgrader.schema_version # orig[2].nbgrader.schema_version
    /\ cells[3] = orig[3]
    /\ cells[1] # orig[1]
    /\ cells[2] # orig[2]

\* cells i < j are the two cells of the document that carry their grade_id
TwoShare(i, j) ==
    /\ i < j
    /\ SameId(i, j)
    /\ \A k \in 1..Len(orig) : k \notin {i, j} => ~SameId(i, k)

\* the document went through DeduplicateIds and CheckDuplicateFlag, and
\* the handler of convert_notebooks if the check raised
Processed == dpc \in {"checked", "recorded"}

\* C11 (as stated) Duplicate-id testable property: of two cells sharing a
\* grade_id, after processing the earlier one in document order is the one
\* that is still a grading cell, and the unit is in the error list.
EarliestRetainsOriginal ==
    Processed =>
        \A i \in 1..Len(orig), j \in 1..Len(orig) :
            TwoShare(i, j) =>
                /\ relevant(cells[i])
                /\ ~relevant(cells[j])
                /\ InErrors(cur)

\* C11 (amended) Duplicate-id testable property: of two cells sharing a
\* grade_id, after processing exactly one is still a grading cell, namely
\* the later one in document order, with its metadata unchanged; the check
\* never passes such a document, and the unit is in the error list.
LatestRetains ==
    \A i \in 1..Len(orig), j \in 1..Len(orig) :
        TwoShare(i, j) =>
            /\ dpc # "checked"
            /\ Processed =>
                /\ ~relevant(cells[i])
                /\ relevant(cells[j])
                /\ cells[j] = orig[j]
                /\ InErrors(cur)

LatestRetainsWitness ==
    /\ dpc = "recorded"
    /\ Len(orig) = 2
    /\ TwoShare(1, 2)
    /\ orig[1].nbgrader.grade_id = "q1"
    /\ relevant(cells[2])
    /\ ~relevant(cells[1])
    /\ errors = <<gd(cur)>>

\* the hook invocations made for unit u
CallsOf(u, hook) ==
    {i \in 1..Len(calls) : calls[i].unit = u /\ calls[i].hook = hook}

\* this step invoked a hook
Called == Len(calls') = Len(calls) + 1

\* C12 Hook failure isolation: a call of the pre or post hook that raised an
\* Exception leaves no exception pending, the error list and the
\* destinations as they were, and the unit goes on to init_assignment
\* (pre) or is Committed (post); a unit in which only hooks failed is never
\* rolled back nor in the error list, and ends Committed with every
\* selected document written.
HookFailureIsolation ==
    /\ [](\A i \in 1..Len(calls) :
            (calls[i].outcome = "Exception" /\ raised[calls[i].unit] = {})
                => /\ ~InErrors(calls[i].unit)
                   /\ state[calls[i].unit] \in {"Processing", "Committed"}
                   /\ pc = "done" =>
                        /\ state[calls[i].unit] = "Committed"
                        /\ Regenerated(dest[calls[i].unit]))
    /\ [][(Called /\ calls'[Len(calls')].outcome = "Exception")
            => /\ pc' # "except"
               /\ exc' = exc
               /\ raised' = raised
               /\ errors' = errors
               /\ dest' = dest
               /\ calls'[Len(calls')].hook = "pre"
                    => pc' = "init_assignment" /\ state'[cur] = "Processing"
               /\ calls'[Len(calls')].hook = "post"
                    => state'[cur] = "Committed"]_vars

HookFailureIsolationWitness ==
    /\ pc = "done"
    /\ result = "returned"
    /\ Len(calls) = 2 * NumUnits
    /\ \A i \in 1..Len(calls) : calls[i].outcome = "Exception"
    /\ \A u \in Units : state[u] = "Committed" /\ Regenerated(dest[u])

\* the steps of a unit that come after run_pre_convert_hook
AfterPreHook == {"init_assignment", "convert", "set_permissions", "post_hook"}

\* C13 (as stated) Hook placement: a hook that ran to its end was, for the
\* pre hook, invoked for a unit that is not skipped, and for the post hook,
\* invoked for a unit that is neither rolled back nor in the error list.
HookPlacementOriginal ==
    \A i \in 1..Len(calls) :
        calls[i].outcome # "KeyboardInterrupt" =>
            /\ calls[i].hook = "pre"
                => state[calls[i].unit] \in {"Processing", "Committed", "RolledBack"}
            /\ calls[i].hook = "post"
                => /\ state[calls[i].unit] # "RolledBack"
                   /\ ~InErrors(calls[i].unit)

\* C13 (amended) Hook placement: the pre hook is invoked once, only for a
\* unit that is not skipped, when nothing has been written for it yet, and
\* every later step of the unit comes after it; the post hook is invoked
\* once, only at the end of the try body, after set_permissions, with every
\* selected document written and nothing raised but DuplicateCellError. A
\* unit whose post hook ran to its end is Committed, never rolled back, and
\* it is in the error list exactly when a document of it raised
\* DuplicateCellError.
HookPlacement ==
    /\ [](/\ \A i \in 1..Len(calls) :
                /\ calls[i].hook = "pre"
                    => state[calls[i].unit] \in {"Processing", "Committed", "RolledBack"}
                /\ (calls[i].hook = "post" /\ calls[i].outcome # "KeyboardInterrupt")
                    => /\ state[calls[i].unit] = "Committed"
                       /\ raised[calls[i].unit] \subseteq {"DuplicateCellError"}
                       /\ InErrors(calls[i].unit)
                            <=> "DuplicateCellError" \in raised[calls[i].unit]
           /\ \A u \in Units :
                /\ Cardinality(CallsOf(u, "pre")) <= 1
                /\ Cardinality(CallsOf(u, "post")) <= 1
                /\ (post_convert_hook /\ state[u] = "Committed")
                        => CallsOf(u, "post") # {}
           /\ (pre_convert_hook /\ pc \in AfterPreHook) => CallsOf(cur, "pre") # {})
    /\ [][Called =>
            /\ calls'[Len(calls')].hook = "pre"
                => /\ pc = "pre_hook"
                   /\ decision \in {"CreateFresh", "RemoveAndReprocess"}
                   /\ dest[cur] \in {pre, remove_existing(pre)}
                   /\ \A d \in Docs : dest[cur].docs[d] # "new"
            /\ calls'[Len(calls')].hook = "post"
                => /\ pc = "post_hook"
                   /\ Regenerated(dest[cur])
                   /\ raised[cur] \subseteq {"DuplicateCellError"}]_vars

HookPlacementWitness ==
    /\ pc = "done"
    /\ \E i \in CallsOf(1, "post") : calls[i].outcome = "returned"
    /\ CallsOf(1, "pre") # {}
    /\ InErrors(1)
    /\ state[1] = "Committed"
    /\ CallsOf(2, "pre") # {}
    /\ CallsOf(2, "post") = {}
    /\ state[2] = "RolledBack"

\* C14 Hook arguments: every hook call gets exactly the keywords
\* assignment, student and notebooks, with the assignment_id and student_id
\* parsed from the path of the unit it is made for and that unit's sorted
\* notebooks.
HookArguments ==
    \A i \in 1..Len(calls) :
        /\ DOMAIN calls[i].kwargs = {"assignment", "student", "notebooks"}
        /\ calls[i].kwargs.assignment = gd(calls[i].unit)[1]
        /\ calls[i].kwargs.student = ToString(gd(calls[i].unit)[2])
        /\ calls[i].kwargs.notebooks = sorted(glob(notebook_id))

\* C15 Permission widening never narrows: the mode that set_permissions
\* gives a visited directory or the output root has every one of the 12
\* permission bits that the directory had, and the bits 0o2770.
WideningNeverNarrows ==
    last_chmod # <<>> =>
        \A k \in 0..(PermissionBits - 1) :
            (bit(st_mode, k) = 1 \/ bit(GroupSharedBits, k) = 1)
                => bit(last_chmod[2], k) = 1

\* no unit holds part of its selected documents written in this run
NoPartialOutput ==
    \A u \in Units :
        \/ Regenerated(dest[u])
        \/ \A d \in glob(notebook_id) : dest[u].docs[d] # "new"

\* C16 Cancellation at unit granularity: once a KeyboardInterrupt raised in
\* a step of a unit in Processing has been handled, the unit is rolled
\* back, convert_notebooks has ended with the KeyboardInterrupt, no later
\* unit has been evaluated or changed, and no unit is left in Processing or
\* with part of its documents written.
Cancellation ==
    (JustHandled /\ exc = "KeyboardInterrupt" /\ excAt # "init_destination")
        => /\ pc = "done"
           /\ result = "KeyboardInterrupt"
           /\ last = cur
           /\ state[last] = "RolledBack"
           /\ RolledBackFrom(dest[last], pre)
           /\ \A v \in Units : v > last => state[v] = "Discovered" /\ v \notin touched
           /\ \A u \in Units : state[u] # "Processing"
           /\ NoPartialOutput

CancellationWitness ==
    /\ pc = "done"
    /\ exc = "KeyboardInterrupt"
    /\ excAt = "convert"
    /\ last = 1
    /\ docIdx = 2
    /\ notebook_id = "*"
    /\ pre.exists
    /\ dest[1] = Absent
    /\ state[NumUnits] = "Discovered"

\* the output of unit u is gone: its destination (whole assignment) or its
\* selected documents (single-document mode)
OutputAbsent(u) ==
    IF notebook_id = "*"
    THEN dest[u] = Absent
    ELSE \A d \in glob(notebook_id) : dest[u].docs[d] = "absent"

\* C17 (as stated) Failed units are rolled back: at the end of a run the
\* output of every unit of the error list is gone, and no Committed unit is
\* in the error list.
FailedUnitsRolledBackOriginal ==
    pc = "done" =>
        \A u \in Units :
            /\ InErrors(u) => OutputAbsent(u)
            /\ state[u] = "Committed" => ~InErrors(u)

\* C17 (amended) Failed units are rolled back, but for duplicates: at the
\* end of a run a unit of the error list is either RolledBack with its
\* output gone, or Committed with every selected document written and
\* nothing raised in it but DuplicateCellError; a unit in which anything
\* else was raised is RolledBack with its output gone; a Committed unit is
\* in the error list exactly when a document of it raised
\* DuplicateCellError.
FailedUnitsRolledBack ==
    pc = "done" =>
        \A u \in Units :
            /\ InErrors(u) =>
                \/ state[u] = "RolledBack" /\ OutputAbsent(u)
                \/ /\ state[u] = "Committed"
                   /\ raised[u] = {"DuplicateCellError"}
                   /\ Regenerated(dest[u])
            /\ raised[u] \ {"DuplicateCellError"} # {}
                => state[u] = "RolledBack" /\ OutputAbsent(u)
            /\ state[u] = "Committed"
                => (InErrors(u) <=> "DuplicateCellError" \in raised[u])

FailedUnitsRolledBackWitness ==
    /\ pc = "done"
    /\ result = "NbGraderException:summary"
    /\ state[1] = "Committed"
    /\ raised[1] = {"DuplicateCellError"}
    /\ InErrors(1)
    /\ Regenerated(dest[1])
    /\ state[2] = "RolledBack"
    /\ raised[2] = {"Exception"}
    /\ InErrors(2)
    /\ 2 \in touched
    /\ OutputAbsent(2)

\* this step converted a document of the unit: the loop moved on by one
Converted == pc = "convert" /\ docIdx' = docIdx + 1

\* this step is the handler of the document loop recording the unit
DuplicateCaught == pc = "convert" /\ Len(errors') = Len(errors) + 1

\* C18 (as stated) Duplicate stops the document loop: once a document of
\* the unit has raised DuplicateCellError, no further document of the unit
\* is converted.
DuplicateStopsLoopOriginal ==
    [][(pc = "convert" /\ "DuplicateCellError" \in raised[cur]) => ~Converted]_vars

\* C18 (amended) Duplicate does not stop the document loop: the step in
\* which DuplicateCellError is caught records the unit in the error list,
\* leaves it in Processing with no exception pending, and goes on to the
\* next document of the unit, or to set_permissions after the last one;
\* the loop is only left when every selected document has been converted.
DuplicateContinuesLoop ==
    /\ [](pc \in {"set_permissions", "post_hook"} => Regenerated(dest[cur]))
    /\ [][DuplicateCaught =>
            /\ errors' = Append(errors, gd(cur))
            /\ "DuplicateCellError" \in raised'[cur]
            /\ state'[cur] = "Processing"
            /\ cur' = cur
            /\ exc' = exc
            /\ docIdx' = docIdx + 1
            /\ pc' = IF docIdx < Len(notebooks) THEN "convert" ELSE "set_permissions"]_vars

DuplicateContinuesLoopWitness ==
    /\ pc = "set_permissions"
    /\ cur = 1
    /\ notebook_id = "*"
    /\ errors = <<gd(1), gd(1)>>
    /\ raised[1] = {"DuplicateCellError"}
    /\ Regenerated(dest[1])
    /\ state[1] = "Processing"

\* this step removed or replaced an output of before the run
RemovedOld ==
    /\ cur \in Units
    /\ \/ \E a \in Assets : files[cur][a] = "old" /\ files'[cur][a] # "old"
       \/ \E d \in Docs : dest[cur].docs[d] = "old" /\ dest'[cur].docs[d] # "old"

\* an asset or a document of the unit has been written in this run
WrittenYet ==
    /\ cur \in Units
    /\ \/ \E a \in Assets : files[cur][a] = "new"
       \/ \E d \in Docs : dest[cur].docs[d] = "new"

ChmodFailed ==
    \/ ppc \in {"raised:filename", "raised:dirname", "raised:rootdir"}
    \/ warnings # {}

\* C20 Permission failures are not fatal: after an os.chmod of a file or of
\* a directory has failed during set_permissions, the unit is not handed to
\* an exception handler, is not rolled back and is not in the error list,
\* and it ends Committed with its post-hook called.
PermissionFailuresNotFatal ==
    ChmodFailed
        => /\ pc # "except"
           /\ state[last] # "RolledBack"
           /\ ~InErrors(last)
           /\ pc \in {"report", "done"}
                => /\ state[last] = "Committed"
                   /\ post_convert_hook => CallsOf(last, "post") # {}

\* at least two grading cells of the original document share a grade_id
SharedId == \E i \in 1..Len(orig), j \in 1..Len(orig) : i # j /\ SameId(i, j)

\* a cell of the original document carries the duplicate tag
TaggedBefore == \E i \in 1..Len(orig) : flagged(orig[i])

\* the check has raised DuplicateCellError
CheckRaised == dpc \in {"DuplicateCellError", "recorded"}

\* C21 as stated: the check raises exactly for the documents in which two
\* grading cells share a grade_id.
DuplicateDetectionOriginal ==
    /\ CheckRaised => SharedId
    /\ dpc = "checked" => ~SharedId

\* C21 Duplicate detection end to end: the check raises exactly for the
\* documents in which two grading cells share a grade_id or a cell carries
\* the duplicate tag from the start; it raises only at a cell that carries
\* the tag, the first one in document order, and strips the tag from that
\* cell and changes nothing else; a document it passes has no tagged cell.
DuplicateDetection ==
    /\ [](CheckRaised => (SharedId \/ TaggedBefore))
    /\ [](dpc = "checked"
            => /\ ~SharedId /\ ~TaggedBefore
               /\ \A i \in 1..Len(cells) : ~flagged(cells[i]))
    /\ [](dpc = "DuplicateCellError"
            => /\ ~flagged(cells[didx])
               /\ "nbgrader_local" \in DOMAIN cells[didx]
               /\ \A i \in 1..(didx - 1) : ~flagged(cells[i]))
    /\ [][(dpc' = "DuplicateCellError" /\ dpc # "DuplicateCellError")
            => /\ flagged(cells[didx])
               /\ cells' = [cells EXCEPT ![didx] = unflag(cells[didx])]]_vars

DuplicateDetectionWitness ==
    /\ dpc = "DuplicateCellError"
    /\ Len(orig) = 3
    /\ SameId(2, 3)
    /\ ~TaggedBefore
    /\ ~relevant(orig[1])
    /\ didx = 2
    /\ cells[2].nbgrader_local = <<>>
    /\ cells[3] = orig[3]

\* the second run has evaluated init_destination for unit u
DecidedAgain(u) == run = 2 /\ last = u /\ decision # "none"

\* C22 as stated: in the second run a unit of the first run's error list is
\* not skipped, and a unit the first run committed is skipped.
ManualRetryOriginal ==
    \A u \in Units :
        DecidedAgain(u) =>
            /\ u \in first.errors => decision # "Skip"
            /\ u \in first.committed => decision = "Skip"

\* C22 Manual retry reprocesses failures: in a second run without --force
\* on the same sources, a unit that the first run recorded in its error
\* list and rolled back is not skipped and is processed again; a unit that
\* the first run committed is skipped, also when that run recorded it for a
\* DuplicateCellError.
ManualRetry ==
    \A u \in Units :
        /\ DecidedAgain(u) =>
            /\ u \in first.errors \ first.committed
                    => /\ decision = "CreateFresh"
                       /\ state[u] # "Skipped"
            /\ u \in first.committed
                    => /\ decision = "Skip"
                       /\ state[u] = "Skipped"
                       /\ u \notin touched
        /\ (run = 2 /\ state[u] = "Skipped" /\ u \in first.errors)
                => u \in first.committed

ManualRetryWitness ==
    /\ run = 2
    /\ pc = "done"
    /\ first.errors = {1, 2}
    /\ first.committed = {2}
    /\ state[1] = "Committed"
    /\ state[2] = "Skipped"
    /\ errors = <<>>

\* no element of the sequence occurs twice
NoRepeats(seq) ==
    \A i \in 1..Len(seq), j \in 1..Len(seq) : i # j => seq[i] # seq[j]

\* C23 Error list has no repeats: no unit occurs twice in the error list,
\* nor in the list of failed units that the final report names.
ErrorListNoRepeats ==
    /\ NoRepeats(errors)
    /\ NoRepeats(reported)

\* cell i is the occurrence of its grade_id that preprocess keeps
Kept(i) == relevant(orig[i]) /\ ~\E j \in 1..Len(orig) : j > i /\ SameId(i, j)

\* C24 DeduplicateIds frame and uniqueness: when preprocess has returned,
\* the document has as many cells as before, each at its place: a cell that
\* is no grading cell or is the kept occurrence of its grade_id is as it
\* was, any other cell is the same cell made unimportant; and no two
\* grading cells of the result share a grade_id.
DeduplicateFrame ==
    dpc = "postprocess" =>
        /\ Len(cells) = Len(orig)
        /\ \A i \in 1..Len(orig) :
            IF ~relevant(orig[i]) \/ Kept(i)
            THEN cells[i] = orig[i]
            ELSE cells[i] = neutralize(orig[i])
        /\ \A i \in 1..Len(cells), j \in 1..Len(cells) :
            (i # j /\ relevant(cells[i]) /\ relevant(cells[j]))
                => cells[i].nbgrader.grade_id # cells[j].nbgrader.grade_id

DeduplicateFrameWitness ==
    /\ dpc = "postprocess"
    /\ Len(orig) = 3
    /\ SameId(1, 3)
    /\ ~relevant(orig[2])
    /\ flagged(orig[2])
    /\ "nbgrader" \in DOMAIN orig[2]
    /\ orig[2].nbgrader.grade_id = orig[1].nbgrader.grade_id
    /\ cells[1] = neutralize(orig[1])
    /\ cells[2] = orig[2]
    /\ cells[3] = orig[3]
    /\ orig[1] # orig[3]

====
